---- MODULE Spec2Model ----
(***************************************************************************)
(* FtxWebsocketClient (src/client.py): the streaming client's local mirror *)
(* of order books, trades, fills, tickers and orders, its subscription     *)
(* registry, the checksum-verified resync and the per-market update pulse. *)
(*                                                                         *)
(* Flows.  One dispatch flow runs _on_open and _on_message; consumer flows *)
(* run the public read operations.  The class takes no lock, so the flows  *)
(* interleave; the model lets them interleave at the suspension points of  *)
(* the code: around send_json (socket I/O) and at Event.wait.  The code    *)
(* between two suspension points is one atomic step.                       *)
(*                                                                         *)
(* Representation.  A defaultdict is a total function whose default value  *)
(* stands for "key absent": a side of a book is a function from the prices *)
(* present to their sizes, a market without book is a pair of empty sides, *)
(* a market without timestamp has timestamp 0.  A str that the code hashes *)
(* is the sequence of its bytes.                                           *)
(***************************************************************************)
EXTENDS Integers, Sequences, FiniteSets, TLC

(***************************************************************************)
(* Bounds of the model.                                                    *)
(***************************************************************************)
NumConsumers == 2
MaxPrice == 2
MaxSize == 1
MaxStamp == 1

Markets == {"A", "B"}
Consumers == 1..NumConsumers
Dispatch == 0
Flows == Consumers \cup {Dispatch}
Prices == 1..MaxPrice
Sizes == 0..MaxSize
Stamps == 0..MaxStamp

(***************************************************************************)
(* Program constants.                                                      *)
(***************************************************************************)
TradesMaxLen == 10000
FillsMaxLen == 10000
ChecksumDepth == 100
ReconnectCode == 20001
WaitSeconds == 5
None == "None"

(***************************************************************************)
(* zlib.crc32 over a byte string: CRC-32 (reflected polynomial EDB88320,   *)
(* initial value and final xor FFFFFFFF), table driven as in zlib.  The     *)
(* 32-bit value is kept as two 16-bit halves.                              *)
(***************************************************************************)
RECURSIVE Xor(_, _)
Xor(a, b) ==
    IF a = 0 THEN b
    ELSE IF b = 0 THEN a
    ELSE ((a + b) % 2) + 2 * Xor(a \div 2, b \div 2)

\* A 32-bit word is the pair << high 16 bits, low 16 bits >>.
Shr1(v) == << v[1] \div 2, (v[2] \div 2) + 32768 * (v[1] % 2) >>

Shr8(v) == << v[1] \div 256, (v[2] \div 256) + 256 * (v[1] % 256) >>

\* The table entry of byte i: eight shifts, each folding in the polynomial.
RECURSIVE CrcShift(_, _)
CrcShift(v, k) ==
    IF k = 0 THEN v
    ELSE CrcShift(IF v[2] % 2 = 1
                  THEN << Xor(Shr1(v)[1], 60856), Xor(Shr1(v)[2], 33568) >>
                  ELSE Shr1(v), k - 1)

RECURSIVE CrcTableRange(_, _)
CrcTableRange(lo, hi) ==
    IF lo = hi THEN << CrcShift(<< 0, lo >>, 8) >>
    ELSE CrcTableRange(lo, (lo + hi) \div 2) \o CrcTableRange(((lo + hi) \div 2) + 1, hi)

crc_table == CrcTableRange(0, 255)

\* Exclusive or of two 4-bit values, tabulated; wider ones by halves.
Xor4 ==
    << << 0, 1, 2, 3, 4, 5, 6, 7, 8, 9, 10, 11, 12, 13, 14, 15 >>,
       << 1, 0, 3, 2, 5, 4, 7, 6, 9, 8, 11, 10, 13, 12, 15, 14 >>,
       << 2, 3, 0, 1, 6, 7, 4, 5, 10, 11, 8, 9, 14, 15, 12, 13 >>,
       << 3, 2, 1, 0, 7, 6, 5, 4, 11, 10, 9, 8, 15, 14, 13, 12 >>,
       << 4, 5, 6, 7, 0, 1, 2, 3, 12, 13, 14, 15, 8, 9, 10, 11 >>,
       << 5, 4, 7, 6, 1, 0, 3, 2, 13, 12, 15, 14, 9, 8, 11, 10 >>,
       << 6, 7, 4, 5, 2, 3, 0, 1, 14, 15, 12, 13, 10, 11, 8, 9 >>,
       << 7, 6, 5, 4, 3, 2, 1, 0, 15, 14, 13, 12, 11, 10, 9, 8 >>,
       << 8, 9, 10, 11, 12, 13, 14, 15, 0, 1, 2, 3, 4, 5, 6, 7 >>,
       << 9, 8, 11, 10, 13, 12, 15, 14, 1, 0, 3, 2, 5, 4, 7, 6 >>,
       << 10, 11, 8, 9, 14, 15, 12, 13, 2, 3, 0, 1, 6, 7, 4, 5 >>,
       << 11, 10, 9, 8, 15, 14, 13, 12, 3, 2, 1, 0, 7, 6, 5, 4 >>,
       << 12, 13, 14, 15, 8, 9, 10, 11, 4, 5, 6, 7, 0, 1, 2, 3 >>,
       << 13, 12, 15, 14, 9, 8, 11, 10, 5, 4, 7, 6, 1, 0, 3, 2 >>,
       << 14, 15, 12, 13, 10, 11, 8, 9, 6, 7, 4, 5, 2, 3, 0, 1 >>,
       << 15, 14, 13, 12, 11, 10, 9, 8, 7, 6, 5, 4, 3, 2, 1, 0 >> >>

Xor8(a, b) == 16 * Xor4[(a \div 16) + 1][(b \div 16) + 1] + Xor4[(a % 16) + 1][(b % 16) + 1]

Xor16(a, b) == 256 * Xor8(a \div 256, b \div 256) + Xor8(a % 256, b % 256)

Xor32(v, w) == << Xor16(v[1], w[1]), Xor16(v[2], w[2]) >>

\* One byte of the table-driven update: crc = table[(crc ^ b) & 0xff] ^ (crc >> 8).
CrcByte(v, b) == Xor32(crc_table[Xor8(v[2] % 256, b) + 1], Shr8(v))

\* The update over bytes[lo..hi], in order, splitting the range in two.
RECURSIVE CrcUpdate(_, _, _, _)
CrcUpdate(v, bytes, lo, hi) ==
    IF lo > hi THEN v
    ELSE IF lo = hi THEN CrcByte(v, bytes[lo])
    ELSE LET mid == (lo + hi) \div 2
             w == CrcUpdate(v, bytes, lo, mid)
         IN  IF w[1] >= 0 THEN CrcUpdate(w, bytes, mid + 1, hi) ELSE w

Crc32Of(bytes) ==
    Xor32(CrcUpdate(<< 65535, 65535 >>, bytes, 1, Len(bytes)), << 65535, 65535 >>)

(***************************************************************************)
(* str.encode() of the text the checksum is taken over.  A price or size   *)
(* is an integer-valued float; f'{float(x)}' prints its decimal digits     *)
(* followed by ".0".  Bytes: '0'..'9' are 48..57, '.' is 46, ':' is 58.    *)
(***************************************************************************)
RECURSIVE Digits(_)
Digits(n) == IF n < 10 THEN << 48 + n >> ELSE Digits(n \div 10) \o << 48 + (n % 10) >>

FloatStr(x) == Digits(x) \o << 46, 48 >>

RECURSIVE Join(_)
Join(parts) ==
    IF parts = << >> THEN << >>
    ELSE IF Len(parts) = 1 THEN parts[1]
    ELSE parts[1] \o << 58 >> \o Join(Tail(parts))

OrderStr(order) == Join(<< FloatStr(order[1]), FloatStr(order[2]) >>)

Take(s, n) == SubSeq(s, 1, IF Len(s) < n THEN Len(s) ELSE n)

Longest(a, b) == IF Len(a) < Len(b) THEN Len(b) ELSE Len(a)

\* One entry per rank of zip_longest(bids[:100], asks[:100]): the orders present
\* at that rank, bid first, joined with ':'.
checksum_data(orderbook) ==
    LET bids == Take(orderbook.bids, ChecksumDepth)
        asks == Take(orderbook.asks, ChecksumDepth)
    IN  [i \in 1..Longest(bids, asks) |->
            Join((IF i <= Len(bids) THEN << OrderStr(bids[i]) >> ELSE << >>)
                 \o (IF i <= Len(asks) THEN << OrderStr(asks[i]) >> ELSE << >>))]


(***************************************************************************)
(* One side of a book: defaultdict(float) keyed by price.                  *)
(***************************************************************************)
EmptySide == << >>

EmptyBook == [bids |-> EmptySide, asks |-> EmptySide]

Put(book, price, size) ==
    [p \in (DOMAIN book) \cup {price} |-> IF p = price THEN size ELSE book[p]]

Del(book, price) == [p \in (DOMAIN book) \ {price} |-> book[p]]

\* The inner loop of _handle_orderbook_message over data[side]: a size that is
\* not zero is stored, a zero size deletes the key; del of a key that is not
\* there raises KeyError and leaves the levels applied so far.
RECURSIVE ApplyLevels(_, _)
ApplyLevels(book, levels) ==
    IF levels = << >> THEN [book |-> book, ok |-> TRUE]
    ELSE LET price == Head(levels)[1]
             size == Head(levels)[2]
         IN  IF size # 0 THEN ApplyLevels(Put(book, price, size), Tail(levels))
             ELSE IF price \in DOMAIN book THEN ApplyLevels(Del(book, price), Tail(levels))
             ELSE [book |-> book, ok |-> FALSE]

\* The key of sorted() in get_orderbook.
\* A key that does not negate the bid prices.
SortKeyAscending(side, price) == price

SortKey(side, price) == price * (IF side = "bids" THEN -1 ELSE 1)

RECURSIVE SortedBy(_, _)
SortedBy(side, items) ==
    IF items = {} THEN << >>
    ELSE LET first == CHOOSE o \in items :
                        \A q \in items : SortKey(side, o[1]) <= SortKey(side, q[1])
         IN  << first >> \o SortedBy(side, items \ {first})

\* The list get_orderbook returns for one side: the (price, quantity) items
\* whose quantity is not zero, sorted by the key.
SideOrders(side, book) ==
    SortedBy(side, {<< p, book[p] >> : p \in {q \in DOMAIN book : book[q] # 0}})

ReadOrderbook(sides) ==
    [bids |-> SideOrders("bids", sides.bids), asks |-> SideOrders("asks", sides.asks)]

\* The books within the bounds of the model, with one more price so that they
\* include the exchange's book when the client has drifted from it.
SidesWithin == UNION {[D -> 1..MaxSize] : D \in SUBSET (1..(MaxPrice + 1))}

BooksWithin == {[bids |-> b, asks |-> a] : b \in SidesWithin, a \in SidesWithin}

\* zlib.crc32.  The values over the texts of the books within the bounds are
\* computed once and kept; any other text is computed when asked for.
crc32_known ==
    [text \in {Join(checksum_data(ReadOrderbook(book))) : book \in BooksWithin} |->
        Crc32Of(text)] @@ << >>

crc32(bytes) == IF bytes \in DOMAIN crc32_known THEN crc32_known[bytes] ELSE Crc32Of(bytes)

computed_result(orderbook) == crc32(Join(checksum_data(orderbook)))

(***************************************************************************)
(* State.                                                                  *)
(***************************************************************************)
VARIABLES
    subscriptions,                      \* self._subscriptions: list of subscriptions
    orders,                             \* self._orders: order id -> record
    tickers,                            \* self._tickers: market -> ticker (empty: no key)
    orderbook_timestamps,               \* self._orderbook_timestamps: market -> time, 0 by default
    orderbook_update_events,            \* self._orderbook_update_events: market -> flag of its Event
    orderbooks,                         \* self._orderbooks: market -> the two sides
    logged_in,                          \* self._logged_in
    last_received_orderbook_data_at,    \* self._last_received_orderbook_data_at
    trades,                             \* self._trades: market -> deque
    fills,                              \* self._fills: deque
    sent,                               \* the frames send_json wrote on the current connection
    pc,                                 \* flow -> the suspension point it is at
    call,                               \* flow -> the public operation it is in
    ret,                                \* flow -> what its last operation returned
    blocked_on,                         \* flow -> the Event it is blocked on in wait()
    handling,                           \* the fields of the message under dispatch still in use
    raised,                             \* the exception the last dispatch ended with
    pulse,                              \* the market whose Event the last step set and cleared
    trade_count                         \* market -> number of trades messages dispatched

vars == << subscriptions, orders, tickers, orderbook_timestamps, orderbook_update_events,
           orderbooks, logged_in, last_received_orderbook_data_at, trades, fills, sent,
           pc, call, ret, blocked_on, handling, raised, pulse, trade_count >>

data_vars == << orders, tickers, orderbook_timestamps, orderbook_update_events, orderbooks,
                logged_in, last_received_orderbook_data_at, trades, fills, trade_count >>

book_vars == << orderbook_timestamps, orderbook_update_events, orderbooks,
                last_received_orderbook_data_at >>

other_vars == << orders, tickers, logged_in, trades, fills, trade_count >>

\* An Optional value is a sequence of at most one element.
NoCall == [fn |-> None, market |-> None, timeout |-> << >>]
NoRet == [fn |-> None, market |-> None, value |-> << >>]
NoMsg == [market |-> None, checksum |-> << 0, 0 >>]

Sub(channel, market) == [channel |-> channel, market |-> market]
Frame(op, subscription) ==
    [op |-> op, channel |-> subscription.channel, market |-> subscription.market]
LoginFrame == [op |-> "login", channel |-> None, market |-> None]

\* The subscription a public operation ensures before it reads.
Channel(fn) ==
    CASE fn = "get_fills" -> "fills"
      [] fn = "get_orders" -> "orders"
      [] fn = "get_trades" -> "trades"
      [] fn = "get_ticker" -> "ticker"
      [] OTHER -> "orderbook"

SubOf(c) == Sub(Channel(c.fn), c.market)

Contains(list, x) == \E i \in 1..Len(list) : list[i] = x

RECURSIVE RemoveAll(_, _)
RemoveAll(list, x) ==
    IF list = << >> THEN << >>
    ELSE IF Head(list) = x THEN RemoveAll(Tail(list), x)
    ELSE << Head(list) >> \o RemoveAll(Tail(list), x)

Count(list, x) == Cardinality({i \in 1..Len(list) : list[i] = x})

\* A deque that never drops an entry.
AppendUnbounded(d, x, maxlen) == Append(d, x)

\* deque(maxlen).append: a full deque drops its oldest entry.
DequeAppend(d, x, maxlen) ==
    IF Len(d) < maxlen THEN Append(d, x) ELSE Append(Tail(d), x)

(***************************************************************************)
(* __init__ and _reset_data.                                               *)
(***************************************************************************)
Init ==
    /\ subscriptions = << >>
    /\ orders = << >>
    /\ tickers = [m \in Markets |-> << >>]
    /\ orderbook_timestamps = [m \in Markets |-> 0]
    /\ orderbook_update_events = [m \in Markets |-> FALSE]
    /\ orderbooks = [m \in Markets |-> EmptyBook]
    /\ logged_in = FALSE
    /\ last_received_orderbook_data_at = 0
    /\ trades = [m \in Markets |-> << >>]
    /\ fills = << >>
    /\ sent = << >>
    /\ pc = [f \in Flows |-> "idle"]
    /\ call = [f \in Flows |-> NoCall]
    /\ ret = [f \in Flows |-> NoRet]
    /\ blocked_on = [f \in Flows |-> None]
    /\ handling = NoMsg
    /\ raised = None
    /\ pulse = None
    /\ trade_count = [m \in Markets |-> 0]

\* Event objects dropped from the dict stay referenced by the flows blocked on
\* them; nothing can set them any more.
Orphaned(b) == [f \in Flows |-> IF b[f] \in Markets THEN "discarded" ELSE b[f]]

\* A reset that keeps the registry.
ResetKeepingSubscriptions ==
    /\ subscriptions' = subscriptions
    /\ orders' = << >>
    /\ tickers' = [m \in Markets |-> << >>]
    /\ orderbook_timestamps' = [m \in Markets |-> 0]
    /\ orderbook_update_events' = [m \in Markets |-> FALSE]
    /\ blocked_on' = Orphaned(blocked_on)
    /\ orderbooks' = [m \in Markets |-> EmptyBook]
    /\ logged_in' = FALSE
    /\ last_received_orderbook_data_at' = 0

_reset_data ==
    /\ subscriptions' = << >>
    /\ orders' = << >>
    /\ tickers' = [m \in Markets |-> << >>]
    /\ orderbook_timestamps' = [m \in Markets |-> 0]
    /\ orderbook_update_events' = [m \in Markets |-> FALSE]
    /\ blocked_on' = Orphaned(blocked_on)
    /\ orderbooks' = [m \in Markets |-> EmptyBook]
    /\ logged_in' = FALSE
    /\ last_received_orderbook_data_at' = 0

\* _on_open runs on the dispatch flow when a connection has opened; frames
\* written from then on go to the new connection.
_on_open ==
    /\ pc[Dispatch] \in {"idle", "reconnect"}
    /\ _reset_data
    /\ sent' = << >>
    /\ pc' = [pc EXCEPT ![Dispatch] = "idle"]
    /\ pulse' = None
    /\ UNCHANGED << trades, fills, trade_count, call, ret, handling, raised >>

\* A reset that drops the books of all markets.
ResetEveryOrderbook(books, market) == [m \in DOMAIN books |-> EmptyBook]

_reset_orderbook(books, market) == [books EXCEPT ![market] = EmptyBook]

_reset_timestamp(stamps, market) == [stamps EXCEPT ![market] = 0]

(***************************************************************************)
(* The part of the state a flow changes between two suspension points, as  *)
(* a record, so that the code between them composes as functions.          *)
(***************************************************************************)
Cur ==
    [pc |-> pc, call |-> call, ret |-> ret, blocked_on |-> blocked_on,
     handling |-> handling, raised |-> raised, pulse |-> None,
     subscriptions |-> subscriptions,
     orderbooks |-> orderbooks, orderbook_timestamps |-> orderbook_timestamps,
     orderbook_update_events |-> orderbook_update_events,
     last_received_orderbook_data_at |-> last_received_orderbook_data_at]

Commit(t) ==
    /\ pc' = t.pc
    /\ call' = t.call
    /\ ret' = t.ret
    /\ blocked_on' = t.blocked_on
    /\ handling' = t.handling
    /\ raised' = t.raised
    /\ pulse' = t.pulse
    /\ subscriptions' = t.subscriptions
    /\ orderbooks' = t.orderbooks
    /\ orderbook_timestamps' = t.orderbook_timestamps
    /\ orderbook_update_events' = t.orderbook_update_events
    /\ last_received_orderbook_data_at' = t.last_received_orderbook_data_at

\* An exception that is not raised.
Swallow(t, exception) == t

\* raise: the exception leaves _on_message and reaches what called it.
Raise(t, exception) == [t EXCEPT !.raised = exception]

\* A public operation returns value to its caller.
Return(t, f, value) ==
    [t EXCEPT !.pc[f] = "idle",
              !.ret[f] = [fn |-> t.call[f].fn, market |-> t.call[f].market, value |-> value],
              !.call[f] = NoCall]

\* Event.set(): the flag is set and every flow blocked on this Event is woken.
EventSet(t, market) ==
    [t EXCEPT !.orderbook_update_events[market] = TRUE,
              !.pulse = market,
              !.pc = [f \in Flows |->
                        IF t.blocked_on[f] = market THEN "woken" ELSE t.pc[f]],
              !.blocked_on = [f \in Flows |->
                        IF t.blocked_on[f] = market THEN None ELSE t.blocked_on[f]]]

\* An Event that is not cleared.
EventKeep(t, market) == t

\* Event.clear().
EventClear(t, market) == [t EXCEPT !.orderbook_update_events[market] = FALSE]

\* _handle_orderbook_message from the checksum on, up to its next send_json.
Verify(t, orderbook) ==
    LET market == t.handling.market
    IN  IF computed_result(orderbook) # t.handling.checksum
        THEN [t EXCEPT !.last_received_orderbook_data_at = 0,
                       !.orderbooks = _reset_orderbook(t.orderbooks, market),
                       !.orderbook_timestamps = _reset_timestamp(t.orderbook_timestamps, market),
                       !.call[Dispatch] = NoCall,
                       !.pc[Dispatch] = "unsub_send"]
        ELSE [EventClear(EventSet(t, market), market) EXCEPT
                       !.call[Dispatch] = NoCall,
                       !.handling = NoMsg,
                       !.pc[Dispatch] = "idle"]

\* The return statement of get_orderbook; on the dispatch flow the handler
\* goes on with the list returned.
ReturnOrderbook(t, f) ==
    LET orderbook == ReadOrderbook(t.orderbooks[t.call[f].market])
    IN  IF f = Dispatch THEN Verify(t, orderbook) ELSE Return(t, f, orderbook)

\* What follows Event.wait in the operation the flow is in.
AfterWait(t, f) ==
    IF t.call[f].fn = "get_orderbook" THEN ReturnOrderbook(t, f) ELSE Return(t, f, << >>)

\* Event.wait(timeout): returns at once when the flag is set, blocks otherwise.
EventWait(t, f) ==
    LET market == t.call[f].market
    IN  IF t.orderbook_update_events[market] THEN AfterWait(t, f)
        ELSE [t EXCEPT !.pc[f] = "wait", !.blocked_on[f] = market]

\* wait_for_orderbook_update(market, 5) as get_orderbook calls it: its own
\* subscription code (suspension point "wsend" when it subscribes), then the wait.
WaitForUpdate(t, f) ==
    IF ~Contains(t.subscriptions, SubOf(t.call[f]))
    THEN [t EXCEPT !.pc[f] = "wsend"]
    ELSE EventWait(t, f)

\* get_orderbook after its subscription code.
GetOrderbookBody(t, f) ==
    IF t.orderbook_timestamps[t.call[f].market] = 0
    THEN WaitForUpdate(t, f)
    ELSE ReturnOrderbook(t, f)

\* The code of a public operation that follows its subscription code.
AfterSubscribe(t, f) ==
    LET fn == t.call[f].fn
        market == t.call[f].market
    IN  CASE fn = "get_fills" -> Return(t, f, fills)
          [] fn = "get_orders" -> Return(t, f, orders)
          [] fn = "get_trades" -> Return(t, f, trades[market])
          [] fn = "get_ticker" -> Return(t, f, tickers[market])
          [] fn = "get_orderbook" -> GetOrderbookBody(t, f)
          [] OTHER -> EventWait(t, f)

\* "if subscription not in self._subscriptions: self._subscribe(subscription)"
\* up to the send_json of _subscribe, and what follows when it is skipped.
EnsureSubscribed(t, f) ==
    IF ~Contains(t.subscriptions, SubOf(t.call[f]))
    THEN [t EXCEPT !.pc[f] = "send"]
    ELSE AfterSubscribe(t, f)

Enter(t, f, fn, market, timeout) ==
    [t EXCEPT !.call[f] = [fn |-> fn, market |-> market, timeout |-> timeout],
              !.ret[f] = NoRet]

(***************************************************************************)
(* Public read operations, called on a consumer flow.                      *)
(***************************************************************************)
get_trades(c, market) ==
    /\ pc[c] = "idle"
    /\ Commit(EnsureSubscribed(Enter(Cur, c, "get_trades", market, << >>), c))
    /\ UNCHANGED << sent, other_vars >>

get_ticker(c, market) ==
    /\ pc[c] = "idle"
    /\ Commit(EnsureSubscribed(Enter(Cur, c, "get_ticker", market, << >>), c))
    /\ UNCHANGED << sent, other_vars >>

get_orderbook(c, market) ==
    /\ pc[c] = "idle"
    /\ Commit(EnsureSubscribed(Enter(Cur, c, "get_orderbook", market, << WaitSeconds >>), c))
    /\ UNCHANGED << sent, other_vars >>

wait_for_orderbook_update(c, market, timeout) ==
    /\ pc[c] = "idle"
    /\ Commit(EnsureSubscribed(Enter(Cur, c, "wait_for_orderbook_update", market, timeout), c))
    /\ UNCHANGED << sent, other_vars >>

\* get_fills and get_orders: "if not self._logged_in: self._login()" first.
Private(c, fn) ==
    /\ pc[c] = "idle"
    /\ LET t == Enter(Cur, c, fn, None, << >>)
       IN  IF ~logged_in THEN Commit([t EXCEPT !.pc[c] = "login_send"])
           ELSE Commit(EnsureSubscribed(t, c))
    /\ UNCHANGED << sent, other_vars >>

get_fills(c) == Private(c, "get_fills")

get_orders(c) == Private(c, "get_orders")

\* websocket_manager.send_json: the frame goes out on the current connection.
send_json(frame) == sent' = Append(sent, frame)

\* _login: the send_json of the login frame ...
_login_send(c) ==
    /\ pc[c] = "login_send"
    /\ send_json(LoginFrame)
    /\ pc' = [pc EXCEPT ![c] = "login_done"]
    /\ pulse' = None
    /\ UNCHANGED << subscriptions, data_vars, call, ret, blocked_on, handling, raised >>

\* ... and "self._logged_in = True", then the subscription code of the caller.
_login_done(c) ==
    /\ pc[c] = "login_done"
    /\ logged_in' = TRUE
    /\ Commit(EnsureSubscribed(Cur, c))
    /\ UNCHANGED << sent, orders, tickers, trades, fills, trade_count >>

\* _subscribe: the send_json of the subscribe frame ...
_subscribe_send(f) ==
    /\ pc[f] \in {"send", "wsend"}
    /\ send_json(Frame("subscribe", SubOf(call[f])))
    /\ pc' = [pc EXCEPT ![f] = IF pc[f] = "send" THEN "append" ELSE "wappend"]
    /\ pulse' = None
    /\ UNCHANGED << subscriptions, data_vars, call, ret, blocked_on, handling, raised >>

\* ... and "self._subscriptions.append(subscription)", then the caller's code.
Appended(t, subscription) ==
    [t EXCEPT !.subscriptions = Append(t.subscriptions, subscription)]

_subscribe_append(f) ==
    /\ pc[f] \in {"append", "wappend"}
    /\ LET t == Appended(Cur, SubOf(call[f]))
       IN  Commit(IF pc[f] = "append" THEN AfterSubscribe(t, f) ELSE EventWait(t, f))
    /\ UNCHANGED << sent, other_vars >>

\* An Event.wait that never gives up.
NeverTimeout(f) == FALSE

\* Event.wait(timeout) gives up: the timeout of a flow blocked with one elapses.
Timeout(f) ==
    /\ pc[f] = "wait"
    /\ call[f].timeout # << >>
    /\ Commit(AfterWait([Cur EXCEPT !.blocked_on[f] = None], f))
    /\ UNCHANGED << sent, other_vars >>

\* A flow woken by Event.set() runs again.
Resume(f) ==
    /\ pc[f] = "woken"
    /\ Commit(AfterWait(Cur, f))
    /\ UNCHANGED << sent, other_vars >>

(***************************************************************************)
(* _on_message on the dispatch flow.                                       *)
(***************************************************************************)
\* The loop "for side in {'bids', 'asks'}" of _handle_orderbook_message; sides
\* is the order in which the set yields them.  ok is FALSE when del raised.
RECURSIVE ApplySides(_, _, _, _, _)
ApplySides(books, stamps, market, data, sides) ==
    IF sides = << >> THEN [books |-> books, stamps |-> stamps, ok |-> TRUE]
    ELSE LET side == Head(sides)
             r == ApplyLevels(books[market][side], data[side])
             books1 == [books EXCEPT ![market][side] = r.book]
         IN  IF ~r.ok THEN [books |-> books1, stamps |-> stamps, ok |-> FALSE]
             ELSE ApplySides(books1, [stamps EXCEPT ![market] = data.time],
                             market, data, Tail(sides))

SideOrders2 == { << "bids", "asks" >>, << "asks", "bids" >> }

\* _handle_orderbook_message up to its first suspension point.
_handle_orderbook_message(t, message, sides) ==
    LET market == message.market
        data == message.data
        partial == data.action = "partial"
        r == ApplySides(IF partial THEN _reset_orderbook(t.orderbooks, market)
                                   ELSE t.orderbooks,
                        IF partial THEN _reset_timestamp(t.orderbook_timestamps, market)
                                   ELSE t.orderbook_timestamps,
                        market, data, sides)
        t1 == [t EXCEPT !.orderbooks = r.books, !.orderbook_timestamps = r.stamps]
    IN  IF ~r.ok THEN Raise(t1, "KeyError")
        ELSE EnsureSubscribed(
                [t1 EXCEPT !.handling = [market |-> market, checksum |-> data.checksum],
                           !.call[Dispatch] = [fn |-> "get_orderbook", market |-> market,
                                               timeout |-> << WaitSeconds >>]],
                Dispatch)

_handle_trades_message(message) ==
    trades' = [trades EXCEPT ![message.market] =
                    DequeAppend(trades[message.market], message.data, TradesMaxLen)]

_handle_ticker_message(message) ==
    tickers' = [tickers EXCEPT ![message.market] = << message.data >>]

_handle_fills_message(message) ==
    fills' = DequeAppend(fills, message.data, FillsMaxLen)

_handle_orders_message(message) ==
    orders' = Put(orders, message.data.id, message.data)

\* _on_message, for a message of type, channel and shape as given by its fields;
\* an absent 'channel' key is channel = None.
_on_message(message, sides) ==
    /\ pc[Dispatch] = "idle"
    /\ LET t == [Cur EXCEPT !.raised = None]
           type == message.type
           channel == message.channel
       IN  IF type \in {"subscribed", "unsubscribed"}
           THEN Commit(t) /\ UNCHANGED << sent, other_vars >>
           ELSE IF type = "info" /\ message.code = ReconnectCode
           THEN Commit([t EXCEPT !.pc[Dispatch] = "reconnect"])
                /\ UNCHANGED << sent, other_vars >>
           ELSE IF type = "error"
           THEN Commit(Raise(t, "Exception")) /\ UNCHANGED << sent, other_vars >>
           ELSE IF channel = None
           THEN Commit(Raise(t, "KeyError")) /\ UNCHANGED << sent, other_vars >>
           ELSE IF channel = "orderbook"
           THEN Commit(_handle_orderbook_message(t, message, sides))
                /\ UNCHANGED << sent, other_vars >>
           ELSE IF channel = "trades"
           THEN /\ _handle_trades_message(message)
                /\ trade_count' = [trade_count EXCEPT ![message.market] = @ + 1]
                /\ Commit(t)
                /\ UNCHANGED << sent, orders, tickers, logged_in, fills >>
           ELSE IF channel = "ticker"
           THEN /\ _handle_ticker_message(message)
                /\ Commit(t)
                /\ UNCHANGED << sent, orders, logged_in, trades, fills, trade_count >>
           ELSE IF channel = "fills"
           THEN /\ _handle_fills_message(message)
                /\ Commit(t)
                /\ UNCHANGED << sent, orders, tickers, logged_in, trades, trade_count >>
           ELSE IF channel = "orders"
           THEN /\ _handle_orders_message(message)
                /\ Commit(t)
                /\ UNCHANGED << sent, tickers, logged_in, trades, fills, trade_count >>
           ELSE Commit(t) /\ UNCHANGED << sent, other_vars >>

\* The checksum differed: _unsubscribe sends its frame ...
_unsubscribe_send ==
    /\ pc[Dispatch] = "unsub_send"
    /\ send_json(Frame("unsubscribe", Sub("orderbook", handling.market)))
    /\ pc' = [pc EXCEPT ![Dispatch] = "unsub_done"]
    /\ pulse' = None
    /\ UNCHANGED << subscriptions, data_vars, call, ret, blocked_on, handling, raised >>

\* ... removes every equal entry, and _subscribe comes to its send_json ...
_unsubscribe_remove ==
    /\ pc[Dispatch] = "unsub_done"
    /\ subscriptions' = RemoveAll(subscriptions, Sub("orderbook", handling.market))
    /\ pc' = [pc EXCEPT ![Dispatch] = "resub_send"]
    /\ pulse' = None
    /\ UNCHANGED << sent, data_vars, call, ret, blocked_on, handling, raised >>

\* ... sends the subscribe frame ...
_resubscribe_send ==
    /\ pc[Dispatch] = "resub_send"
    /\ send_json(Frame("subscribe", Sub("orderbook", handling.market)))
    /\ pc' = [pc EXCEPT ![Dispatch] = "resub_done"]
    /\ pulse' = None
    /\ UNCHANGED << subscriptions, data_vars, call, ret, blocked_on, handling, raised >>

\* ... and records the subscription; the handler returns.
_resubscribe_append ==
    /\ pc[Dispatch] = "resub_done"
    /\ subscriptions' = Append(subscriptions, Sub("orderbook", handling.market))
    /\ pc' = [pc EXCEPT ![Dispatch] = "idle"]
    /\ handling' = NoMsg
    /\ pulse' = None
    /\ UNCHANGED << sent, data_vars, call, ret, blocked_on, raised >>

(***************************************************************************)
(* The exchange.  It keeps the book of each market and sends, with every   *)
(* orderbook message, the checksum of its own book after the message.  The *)
(* client is in step with it when the book it held before the message was  *)
(* the exchange's; otherwise the exchange's book is another one.           *)
(***************************************************************************)
MaxLevels == 1

\* The level lists of a message: at most n levels, prices increasing from lo.
RECURSIVE LevelLists(_, _)
LevelLists(lo, n) ==
    {<< >>} \cup
    (IF n = 0 THEN {}
     ELSE UNION {{<< << p, z >> >> \o rest : z \in Sizes, rest \in LevelLists(p + 1, n - 1)} :
                    p \in lo..MaxPrice})

\* A level of the exchange's book after a diff: set when its size is positive,
\* removed when its size is zero and it is there.
RECURSIVE ServerSide(_, _)
ServerSide(book, levels) ==
    IF levels = << >> THEN book
    ELSE ServerSide(IF Head(levels)[2] > 0 THEN Put(book, Head(levels)[1], Head(levels)[2])
                    ELSE Del(book, Head(levels)[1]),
                    Tail(levels))

ServerBook(before, action, bids, asks) ==
    LET base == IF action = "partial" THEN EmptyBook ELSE before
    IN  [bids |-> ServerSide(base.bids, bids), asks |-> ServerSide(base.asks, asks)]

\* A book the client cannot hold: a bid beyond the prices of the messages.
DriftedBook(book) == [book EXCEPT !.bids = Put(book.bids, MaxPrice + 1, 1)]

ServerChecksum(market, action, bids, asks, drifted) ==
    LET book == ServerBook(orderbooks[market], action, bids, asks)
    IN  computed_result(ReadOrderbook(IF drifted THEN DriftedBook(book) ELSE book))

OrderbookMessage(market, action, bids, asks, time, drifted) ==
    [type |-> action, code |-> 0, channel |-> "orderbook", market |-> market,
     data |-> [action |-> action, bids |-> bids, asks |-> asks, time |-> time,
               checksum |-> ServerChecksum(market, action, bids, asks, drifted)]]

\* The exchange sends the messages of a channel only on a connection on which
\* it was asked to: a subscribe frame for it is among the frames sent.
Subscribed(channel, market) == Contains(sent, Frame("subscribe", Sub(channel, market)))

\* The log of frames is kept to MaxSent entries: an operation that may write n
\* frames starts only when there is room for them.
MaxSent == 4

Room(n) == Len(sent) + n <= MaxSent

\* No operation is under way and no result is held by a caller.
Quiescent == \A f \in Flows : pc[f] = "idle" /\ ret[f].fn = None

\* The caller of a public operation drops what it returned.
Consume(c) ==
    /\ pc[c] = "idle"
    /\ ret[c].fn # None
    /\ ret' = [ret EXCEPT ![c] = NoRet]
    /\ pulse' = None
    /\ UNCHANGED << subscriptions, data_vars, sent, pc, call, blocked_on, handling, raised >>

(***************************************************************************)
(* SpecBook: the order book of one market, operations one at a time.       *)
(***************************************************************************)
BookMarket == "A"

ReceiveBook ==
    /\ Quiescent
    /\ Room(3)
    /\ Subscribed("orderbook", BookMarket)
    /\ \E action \in {"partial", "update"}, bids \in LevelLists(1, MaxLevels),
          asks \in LevelLists(1, MaxLevels), time \in 1..MaxStamp,
          drifted \in BOOLEAN, sides \in SideOrders2 :
            _on_message(OrderbookMessage(BookMarket, action, bids, asks, time, drifted), sides)

ReadBook == Quiescent /\ Room(1) /\ get_orderbook(1, BookMarket)

NextBook ==
    \/ ReceiveBook
    \/ ReadBook
    \/ Consume(1)
    \/ \E f \in {Dispatch, 1} : _subscribe_send(f)
    \/ \E f \in {Dispatch, 1} : _subscribe_append(f)
    \/ \E f \in {Dispatch, 1} : Timeout(f)
    \/ _unsubscribe_send
    \/ _unsubscribe_remove
    \/ _resubscribe_send
    \/ _resubscribe_append
    \/ Quiescent /\ _on_open

SpecBook == Init /\ [][NextBook]_vars

(***************************************************************************)
(* Spec: consumers and the dispatch flow interleaving at their suspension   *)
(* points, on the order books of two markets.                               *)
(***************************************************************************)
\* timeout: Optional[float], a number of seconds or None.
Timeouts == {<< WaitSeconds >>, << >>}

\* The level lists of the messages of Spec: no level, or one bid.
PulseBids == {<< >>, << << 1, 1 >> >>}

\* A consumer flow makes one call.
Fresh(c) == pc[c] = "idle" /\ ret[c].fn = None

Wait == \E c \in Consumers, market \in Markets, timeout \in Timeouts :
            Fresh(c) /\ wait_for_orderbook_update(c, market, timeout)

Receive ==
    \E market \in Markets, action \in {"partial", "update"}, bids \in PulseBids,
       drifted \in BOOLEAN :
        /\ Subscribed("orderbook", market)
        /\ _on_message(OrderbookMessage(market, action, bids, << >>, 1, drifted),
                       << "bids", "asks" >>)

Next ==
    \/ Wait
    \/ Receive
    \/ \E f \in Flows : Room(1) /\ _subscribe_send(f)
    \/ \E f \in Flows : _subscribe_append(f)
    \/ \E c \in Consumers : Timeout(c)
    \/ \E c \in Consumers : Resume(c)
    \/ Room(1) /\ _unsubscribe_send
    \/ _unsubscribe_remove
    \/ Room(1) /\ _resubscribe_send
    \/ _resubscribe_append
    \/ _on_open

Spec == Init /\ [][Next]_vars

\* A flow blocked in Event.wait is given the processor when its wait ends,
\* by the timeout or by Event.set().
SpecFair ==
    Spec /\ \A c \in Consumers : WF_vars(Timeout(c)) /\ WF_vars(Resume(c))

(***************************************************************************)
(* SpecTrades: the trade buffer of one market filled past its capacity.    *)
(* The payload of a trades message is its rank of arrival, so that the     *)
(* content of the buffer tells which messages it holds and in which order. *)
(***************************************************************************)
TradesMarket == "A"

\* The messages that arrive after the buffer is full.
MaxOverflow == 2

TradesMessage(market, data) ==
    [type |-> "update", code |-> 0, channel |-> "trades", market |-> market, data |-> data]

ReceiveTrade ==
    /\ Quiescent
    /\ Subscribed("trades", TradesMarket)
    /\ trade_count[TradesMarket] < TradesMaxLen + MaxOverflow
    /\ _on_message(TradesMessage(TradesMarket, trade_count[TradesMarket] + 1),
                   << "bids", "asks" >>)

\* get_trades is called before the first message, and once the buffer is full.
ReadTrades ==
    /\ Quiescent
    /\ trade_count[TradesMarket] = 0 \/ trade_count[TradesMarket] >= TradesMaxLen
    /\ get_trades(1, TradesMarket)

NextTrades ==
    \/ ReceiveTrade
    \/ ReadTrades
    \/ Consume(1)
    \/ _subscribe_send(1)
    \/ _subscribe_append(1)

\* The session once get_trades has subscribed and returned and n trades
\* messages were dispatched: a state the run from Init comes to after n
\* messages, from which the run is taken up.
Streamed(n) ==
    /\ subscriptions = << Sub("trades", TradesMarket) >>
    /\ sent = << Frame("subscribe", Sub("trades", TradesMarket)) >>
    /\ trades = [m \in Markets |-> IF m = TradesMarket THEN [i \in 1..n |-> i] ELSE << >>]
    /\ trade_count = [m \in Markets |-> IF m = TradesMarket THEN n ELSE 0]
    /\ orders = << >>
    /\ tickers = [m \in Markets |-> << >>]
    /\ orderbook_timestamps = [m \in Markets |-> 0]
    /\ orderbook_update_events = [m \in Markets |-> FALSE]
    /\ orderbooks = [m \in Markets |-> EmptyBook]
    /\ logged_in = FALSE
    /\ last_received_orderbook_data_at = 0
    /\ fills = << >>
    /\ pc = [f \in Flows |-> "idle"]
    /\ call = [f \in Flows |-> NoCall]
    /\ ret = [f \in Flows |-> NoRet]
    /\ blocked_on = [f \in Flows |-> None]
    /\ handling = NoMsg
    /\ raised = None
    /\ pulse = None

\* The runs from construction, and the same runs taken up one message before
\* the buffer is full.
InitTrades == Init \/ Streamed(TradesMaxLen - 1)

SpecTrades == InitTrades /\ [][NextTrades]_vars

(***************************************************************************)
(* SpecStores: the trades, ticker, fills and orders of a session, and the  *)
(* connection opening again.                                               *)
(***************************************************************************)
\* The entries a buffer is filled with, and the payloads of the messages.
MaxBuffered == 1

Payloads == 1..MaxBuffered

TickerMessage(market, data) ==
    [type |-> "update", code |-> 0, channel |-> "ticker", market |-> market, data |-> data]

FillsMessage(data) ==
    [type |-> "update", code |-> 0, channel |-> "fills", market |-> None, data |-> data]

OrdersMessage(id, data) ==
    [type |-> "update", code |-> 0, channel |-> "orders", market |-> None,
     data |-> [id |-> id, filledSize |-> data]]

ReceiveStore ==
    \/ \E market \in Markets, data \in Payloads :
            /\ Subscribed("trades", market)
            /\ trade_count[market] < MaxBuffered
            /\ _on_message(TradesMessage(market, data), << "bids", "asks" >>)
    \/ \E market \in Markets, data \in Payloads :
            /\ Subscribed("ticker", market)
            /\ _on_message(TickerMessage(market, data), << "bids", "asks" >>)
    \/ \E data \in Payloads :
            /\ Subscribed("fills", None)
            /\ Len(fills) < MaxBuffered
            /\ _on_message(FillsMessage(data), << "bids", "asks" >>)
    \/ \E id \in Payloads, data \in Payloads :
            /\ Subscribed("orders", None)
            /\ _on_message(OrdersMessage(id, data), << "bids", "asks" >>)

ReadStore ==
    \E c \in Consumers :
        /\ Fresh(c)
        /\ \/ \E market \in Markets : get_trades(c, market)
           \/ \E market \in Markets : get_ticker(c, market)
           \/ get_fills(c)
           \/ get_orders(c)

NextStores ==
    \/ ReceiveStore
    \/ ReadStore
    \/ \E c \in Consumers : Room(1) /\ _login_send(c)
    \/ \E c \in Consumers : _login_done(c)
    \/ \E c \in Consumers : Room(1) /\ _subscribe_send(c)
    \/ \E c \in Consumers : _subscribe_append(c)
    \/ _on_open

SpecStores == Init /\ [][NextStores]_vars

(***************************************************************************)
(* SpecInbound: every shape of inbound message, and one consumer reading   *)
(* the order books, trades and tickers of two markets, one operation at a  *)
(* time.                                                                   *)
(***************************************************************************)
\* {"type": "error", "code": 400, "msg": ...}: no 'channel' key, and no 'data'
\* key, which is data = 0 here and in the messages that follow.
ErrorMessage ==
    [type |-> "error", code |-> 400, channel |-> None, market |-> None, data |-> 0]

\* {"type": "info", "code": code, "msg": ...}: no 'channel' key.
InfoMessage(code) ==
    [type |-> "info", code |-> code, channel |-> None, market |-> None, data |-> 0]

\* {"type": "subscribed", "channel": channel, "market": market}.
Acknowledgement(type, channel, market) ==
    [type |-> type, code |-> 0, channel |-> channel, market |-> market, data |-> 0]

\* A message of a type the client does not know: {"type": "pong"}, without
\* 'channel', or one that names a channel.
OtherTypeMessage(channel, market, data) ==
    [type |-> "pong", code |-> 0, channel |-> channel, market |-> market, data |-> data]

\* A message of a channel the client does not know.
OtherChannelMessage(market, data) ==
    [type |-> "update", code |-> 0, channel |-> "markets", market |-> market, data |-> data]

ReconnectMessages == {InfoMessage(ReconnectCode)}

\* The shapes of message the client has no handler for.
UnrecognizedMessages ==
    {InfoMessage(ReconnectCode + 1)}
    \cup {Acknowledgement(type, "trades", market) :
            type \in {"subscribed", "unsubscribed"}, market \in Markets}
    \cup {OtherTypeMessage(None, None, 0)}
    \cup {OtherTypeMessage("trades", market, data) : market \in Markets, data \in Payloads}
    \cup {OtherChannelMessage(market, data) : market \in Markets, data \in Payloads}

ControlMessages == {ErrorMessage} \cup ReconnectMessages \cup UnrecognizedMessages

\* The trade buffers are kept to MaxBuffered entries.
ReceiveControl ==
    /\ Quiescent
    /\ \E message \in ControlMessages :
            /\ message.channel = "trades" => trade_count[message.market] < MaxBuffered
            /\ _on_message(message, << "bids", "asks" >>)

\* The orderbook messages of SpecInbound: no level or one bid, a time that may
\* be 0, a checksum that may differ.
ReceiveOrderbook ==
    \E market \in Markets, action \in {"partial", "update"}, bids \in PulseBids,
       time \in Stamps, drifted \in BOOLEAN :
        /\ Quiescent
        /\ Room(2)
        /\ Subscribed("orderbook", market)
        /\ _on_message(OrderbookMessage(market, action, bids, << >>, time, drifted),
                       << "bids", "asks" >>)

ReceiveFeed ==
    \/ \E market \in Markets, data \in Payloads :
            /\ Quiescent
            /\ Subscribed("trades", market)
            /\ trade_count[market] < MaxBuffered
            /\ _on_message(TradesMessage(market, data), << "bids", "asks" >>)
    \/ \E market \in Markets, data \in Payloads :
            /\ Quiescent
            /\ Subscribed("ticker", market)
            /\ _on_message(TickerMessage(market, data), << "bids", "asks" >>)

ReadInbound ==
    /\ Quiescent
    /\ Room(1)
    /\ \E market \in Markets :
            \/ get_orderbook(1, market)
            \/ get_trades(1, market)
            \/ get_ticker(1, market)

InboundFlows == {Dispatch, 1}

NextInbound ==
    \/ ReceiveControl
    \/ ReceiveOrderbook
    \/ ReceiveFeed
    \/ ReadInbound
    \/ Consume(1)
    \/ \E f \in InboundFlows : _subscribe_send(f)
    \/ \E f \in InboundFlows : _subscribe_append(f)
    \/ \E f \in InboundFlows : Timeout(f)
    \/ _unsubscribe_send
    \/ _unsubscribe_remove
    \/ _resubscribe_send
    \/ _resubscribe_append
    \/ (Quiescent \/ pc[Dispatch] = "reconnect") /\ _on_open

SpecInbound == Init /\ [][NextInbound]_vars

(***************************************************************************)
(* SpecMarkets: the orderbook, trades and ticker messages of two markets   *)
(* on one connection, one operation at a time.                             *)
(***************************************************************************)
ReceiveMarkets ==
    \E market \in Markets, action \in {"partial", "update"}, bids \in PulseBids,
       time \in 1..MaxStamp, drifted \in BOOLEAN :
        /\ Quiescent
        /\ Room(2)
        /\ Subscribed("orderbook", market)
        /\ _on_message(OrderbookMessage(market, action, bids, << >>, time, drifted),
                       << "bids", "asks" >>)

NextMarkets ==
    \/ ReceiveMarkets
    \/ ReceiveFeed
    \/ ReadInbound
    \/ Consume(1)
    \/ _subscribe_send(1)
    \/ _subscribe_append(1)
    \/ Timeout(1)
    \/ _unsubscribe_send
    \/ _unsubscribe_remove
    \/ _resubscribe_send
    \/ _resubscribe_append

SpecMarkets == Init /\ [][NextMarkets]_vars

(***************************************************************************)
(* SpecRead: a consumer reading the order book of one market while the     *)
(* dispatch flow handles the messages of that market, the two interleaving *)
(* at their suspension points.                                             *)
(***************************************************************************)
ReadFlows == {Dispatch, 1}

ReceiveRead ==
    \E action \in {"partial", "update"}, bids \in PulseBids, drifted \in BOOLEAN :
        /\ Subscribed("orderbook", BookMarket)
        /\ _on_message(OrderbookMessage(BookMarket, action, bids, << >>, 1, drifted),
                       << "bids", "asks" >>)

CallRead == Fresh(1) /\ get_orderbook(1, BookMarket)

NextRead ==
    \/ ReceiveRead
    \/ CallRead
    \/ Consume(1)
    \/ \E f \in ReadFlows : Room(1) /\ _subscribe_send(f)
    \/ \E f \in ReadFlows : _subscribe_append(f)
    \/ Timeout(1)
    \/ Resume(1)
    \/ Room(1) /\ _unsubscribe_send
    \/ _unsubscribe_remove
    \/ Room(1) /\ _resubscribe_send
    \/ _resubscribe_append
    \/ _on_open

SpecRead == Init /\ [][NextRead]_vars

(***************************************************************************)
(* Properties of the order book, under SpecBook.                           *)
(***************************************************************************)
Positive(list) == \A i \in 1..Len(list) : list[i][2] > 0

StrictlyDescending(list) == \A i \in 1..(Len(list) - 1) : list[i][1] > list[i + 1][1]

StrictlyAscending(list) == \A i \in 1..(Len(list) - 1) : list[i][1] < list[i + 1][1]

\* C1: what get_orderbook returns holds, on each side, only levels of size
\* greater than zero, the bids in strictly descending order of price and the
\* asks in strictly ascending order of price.
C1_ReturnedBookFilteredAndSorted ==
    \A c \in Consumers :
        ret[c].fn = "get_orderbook" =>
            /\ Positive(ret[c].value.bids) /\ StrictlyDescending(ret[c].value.bids)
            /\ Positive(ret[c].value.asks) /\ StrictlyAscending(ret[c].value.asks)

\* get_orderbook has returned a book of two bids and two asks.
C1_Witness ==
    /\ ret[1].fn = "get_orderbook"
    /\ Len(ret[1].value.bids) = 2
    /\ Len(ret[1].value.asks) = 2

\* The dispatch of a message ran to the end of its handler: nothing was raised
\* and the dispatch flow is back at rest.
Completed == raised' = None /\ pc'[Dispatch] = "idle"

\* C5: the dispatch of an 'update' message never fails, and when its handler
\* has run to its end with the checksum verified the book of the market is the
\* prior book with each level of size other than zero set and each level of
\* size zero removed when it was there and left out when it was not.
C5_UpdateAppliesDiff ==
    [][\A bids \in LevelLists(1, MaxLevels), asks \in LevelLists(1, MaxLevels),
          time \in 1..MaxStamp, drifted \in BOOLEAN, sides \in SideOrders2 :
            (Quiescent /\ _on_message(OrderbookMessage(BookMarket, "update", bids, asks,
                                                       time, drifted), sides))
            => /\ raised' = None
               /\ Completed =>
                    orderbooks'[BookMarket] =
                        ServerBook(orderbooks[BookMarket], "update", bids, asks)]_vars

\* C6: the dispatch of a 'partial' message never fails, and when its handler
\* has run to its end with the checksum verified the book of the market holds
\* exactly the levels of the snapshot of size greater than zero, whatever it
\* held before, and the time recorded for the market is the time of the message.
C6_PartialReplacesBook ==
    [][\A bids \in LevelLists(1, MaxLevels), asks \in LevelLists(1, MaxLevels),
          time \in 1..MaxStamp, drifted \in BOOLEAN, sides \in SideOrders2 :
            (Quiescent /\ _on_message(OrderbookMessage(BookMarket, "partial", bids, asks,
                                                       time, drifted), sides))
            => /\ raised' = None
               /\ Completed =>
                    /\ orderbooks'[BookMarket] =
                            ServerBook(orderbooks[BookMarket], "partial", bids, asks)
                    /\ orderbook_timestamps'[BookMarket] = time]_vars

(***************************************************************************)
(* Properties of the registry, the frames and the pulse, under Spec.       *)
(***************************************************************************)
OrderbookSub(market) == Sub("orderbook", market)

\* The handler of an orderbook message whose checksum differed finishes.
MismatchHandled == pc[Dispatch] = "resub_done" /\ pc'[Dispatch] = "idle"

\* In log, an unsubscribe frame for subscription is followed by a subscribe frame for it.
UnsubscribedThenSubscribed(log, subscription) ==
    \E i, j \in 1..Len(log) :
        /\ i < j
        /\ log[i] = Frame("unsubscribe", subscription)
        /\ log[j] = Frame("subscribe", subscription)

\* C2: when the handler of an orderbook message for M whose checksum differed
\* finishes, M has no level on either side and no timestamp, an unsubscribe
\* frame for (orderbook, M) was sent and a subscribe frame for it after that,
\* and the registry holds exactly one (orderbook, M) entry.
C2_MismatchResubscribesOnce ==
    [][MismatchHandled =>
        /\ orderbooks'[handling.market] = EmptyBook
        /\ orderbook_timestamps'[handling.market] = 0
        /\ UnsubscribedThenSubscribed(sent', OrderbookSub(handling.market))
        /\ Count(subscriptions', OrderbookSub(handling.market)) = 1]_vars

\* The subscribe frames for subscription in log that follow its last unsubscribe frame.
RECURSIVE SubscribeFrames(_, _)
SubscribeFrames(log, subscription) ==
    IF log = << >> \/ log[Len(log)] = Frame("unsubscribe", subscription) THEN 0
    ELSE SubscribeFrames(SubSeq(log, 1, Len(log) - 1), subscription)
         + (IF log[Len(log)] = Frame("subscribe", subscription) THEN 1 ELSE 0)

\* C3: on one connection, whatever calls the flows have made and however they
\* interleaved, at most one subscribe frame was sent for each subscription since
\* its last unsubscribe frame, and no two entries of the registry are equal.
C3_OneSubscribeFramePerSubscription ==
    \A market \in Markets :
        /\ SubscribeFrames(sent, OrderbookSub(market)) <= 1
        /\ Count(subscriptions, OrderbookSub(market)) <= 1

\* C7: a consumer blocked in wait_for_orderbook_update(M, timeout) is woken by
\* a step exactly when that step is the dispatch of an orderbook message for M
\* whose checksum matched: such a message wakes every consumer blocked on M, and
\* no other step wakes one.
C7_WokenIffVerified ==
    [][\A c \in Consumers :
          pc[c] = "wait" => (pc'[c] = "woken" <=> pulse' = call[c].market)]_vars

\* The step brings consumer c to Event.wait: it makes its call with the
\* subscription in the registry, or it has just recorded the subscription.
ComesToWait(c) ==
    \/ Fresh(c) /\ (pc'[c] = "wait" \/ ret'[c].fn # None)
    \/ pc[c] = "append" /\ pc'[c] # "append"

\* C8: the Event of every market is unsignaled in every state the flows can
\* observe, whatever was dispatched, so that a consumer that comes to wait
\* blocks, whatever pulses there were before.
C8_PulseNotSticky ==
    /\ [](\A market \in Markets : ~orderbook_update_events[market])
    /\ [][\A c \in Consumers : ComesToWait(c) => pc'[c] = "wait"]_vars

\* A consumer has been woken by a pulse for market A and has not run yet;
\* another one came to wait on A after that pulse and is blocked.
C8_Witness ==
    \E c, d \in Consumers :
        /\ pc[c] = "woken" /\ call[c].market = "A"
        /\ pc[d] = "wait" /\ blocked_on[d] = "A"

(***************************************************************************)
(* Properties of the blocking wait, under SpecFair.                        *)
(***************************************************************************)
\* C9: a consumer blocked in wait_for_orderbook_update(M, timeout) with a
\* timeout eventually returns, whether or not a message for M is verified and
\* whether or not the connection is reset while it is blocked.
C9_BlockedWaitReturns ==
    \A c \in Consumers :
        (pc[c] = "wait" /\ call[c].timeout # << >>) ~> (pc[c] = "idle")

\* A consumer with a timeout is blocked on an Event that a connection reset
\* has dropped from the dict.
C9_Witness ==
    \E c \in Consumers :
        pc[c] = "wait" /\ blocked_on[c] = "discarded" /\ call[c].timeout # << >>

(***************************************************************************)
(* Properties of the trade buffer, under SpecTrades.                       *)
(***************************************************************************)
Min(a, b) == IF a < b THEN a ELSE b

\* The payloads of the last k of n messages, in the order of their arrival.
LastPayloads(n, k) == [i \in 1..k |-> n - k + i]

\* C4: the trade buffer of a market never holds more than 10 000 entries; it
\* holds the payloads of the last min(n, 10 000) of the n trades messages
\* received for the market, in the order of their arrival, and get_trades
\* returns that sequence.
C4_TradeBufferKeepsMostRecent ==
    /\ \A market \in Markets :
            /\ Len(trades[market]) <= TradesMaxLen
            /\ trades[market] =
                    LastPayloads(trade_count[market], Min(trade_count[market], TradesMaxLen))
    /\ \A c \in Consumers :
            ret[c].fn = "get_trades" => ret[c].value = trades[ret[c].market]

\* get_trades has returned the buffer after one message more than it can hold:
\* 10 000 entries, the first of them the second message received.
C4_Witness ==
    /\ trade_count[TradesMarket] = TradesMaxLen + 1
    /\ ret[1].fn = "get_trades"
    /\ Len(ret[1].value) = TradesMaxLen
    /\ ret[1].value[1] = 2
    /\ ret[1].value[TradesMaxLen] = TradesMaxLen + 1

(***************************************************************************)
(* Properties of the connection opening, under SpecStores.                 *)
(***************************************************************************)
\* C10: right after the on-open handler has run, the registry is empty, no
\* market has an order-book level or a timestamp, the ticker cache and the
\* order cache are empty, the trade buffers and the fill buffer are empty and
\* the session is not logged in.
C10_OpenWipesEverything ==
    [][_on_open =>
        /\ subscriptions' = << >>
        /\ \A market \in Markets :
                /\ orderbooks'[market] = EmptyBook
                /\ orderbook_timestamps'[market] = 0
                /\ tickers'[market] = << >>
                /\ trades'[market] = << >>
        /\ orders' = << >>
        /\ fills' = << >>
        /\ ~logged_in']_vars

(***************************************************************************)
(* Properties of the login, under SpecStores.                              *)
(***************************************************************************)
PrivateSubscribe(frame) == frame.op = "subscribe" /\ frame.channel \in {"fills", "orders"}

\* C11: among the frames sent on the current connection, every subscribe frame
\* for 'fills' or 'orders' comes after a login frame, whatever calls and
\* connection opens came before and however they interleaved.
C11_LoginBeforePrivateSubscribe ==
    \A i \in 1..Len(sent) :
        PrivateSubscribe(sent[i]) => \E j \in 1..(i - 1) : sent[j] = LoginFrame

(***************************************************************************)
(* Properties of the dispatch of control messages, under SpecInbound.      *)
(***************************************************************************)
Stores == << orderbooks, orderbook_timestamps, trades, fills, tickers, orders, subscriptions >>

\* The dispatch of the message ended without an exception, sent no frame and
\* changed no store.
Dropped == raised' = None /\ pc'[Dispatch] = "idle" /\ sent' = sent /\ UNCHANGED Stores

\* C12: the dispatch of a message of type 'error' raises an exception to what
\* called _on_message, sends no frame, starts no reconnect and changes no store.
C12_ErrorIsFatal ==
    [][_on_message(ErrorMessage, << "bids", "asks" >>) =>
            /\ raised' = "Exception"
            /\ pc'[Dispatch] = "idle"
            /\ sent' = sent
            /\ UNCHANGED Stores]_vars

\* An error message was dispatched in a session that holds a book, a trade, a
\* ticker and a subscription.
C12_Witness ==
    /\ raised = "Exception"
    /\ \E market \in Markets : orderbooks[market].bids # << >>
    /\ \E market \in Markets : trades[market] # << >> /\ tickers[market] # << >>
    /\ subscriptions # << >>

\* C13: the dispatch of a message of a shape the client has no handler for (an
\* acknowledgement, an 'info' with another code, an unknown type, an unknown
\* channel) raises nothing, sends no frame and changes no store.
C13_UnrecognizedDropped ==
    [][\A message \in UnrecognizedMessages :
            _on_message(message, << "bids", "asks" >>) => Dropped]_vars

\* A step that writes a subscribe frame on the connection.
SendsSubscribe ==
    /\ Len(sent') = Len(sent) + 1
    /\ sent'[Len(sent')].op = "subscribe"

\* C14: the dispatch of an 'info' message with the reconnect code changes no
\* store and sends nothing, and has the connection opened again; when it has
\* opened the registry is empty and nothing was sent on it; and a subscribe
\* frame is only ever written by a flow inside a read operation whose
\* subscription is missing from the registry, or by the handler of a checksum
\* mismatch: nothing subscribes again on its own.
C14_ReconnectWithoutResubscribe ==
    /\ [][\A message \in ReconnectMessages :
            _on_message(message, << "bids", "asks" >>) =>
                /\ pc'[Dispatch] = "reconnect"
                /\ raised' = None
                /\ sent' = sent
                /\ UNCHANGED Stores]_vars
    /\ [][(pc[Dispatch] = "reconnect" /\ pc'[Dispatch] = "idle") =>
                subscriptions' = << >> /\ sent' = << >>]_vars
    /\ [][SendsSubscribe =>
            \/ \E f \in Flows :
                    /\ pc[f] \in {"send", "wsend"}
                    /\ ~Contains(subscriptions, SubOf(call[f]))
                    /\ sent'[Len(sent')] = Frame("subscribe", SubOf(call[f]))
            \/ pc[Dispatch] = "resub_send"]_vars

\* The reconnect message was dispatched in a session with subscriptions, a
\* book and a ticker, and the connection is about to open again.
C14_Witness ==
    /\ pc[Dispatch] = "reconnect"
    /\ Len(subscriptions) >= 2
    /\ \E market \in Markets : orderbooks[market].bids # << >> /\ tickers[market] # << >>

(***************************************************************************)
(* Properties of the dispatch of orderbook messages, under SpecInbound.    *)
(***************************************************************************)
\* C15: the dispatch flow is never blocked in Event.wait, whatever message it
\* handles.
C15_DispatchNeverWaits ==
    pc[Dispatch] \notin {"wait", "woken"} /\ blocked_on[Dispatch] = None

NoBookState(books, stamps, market) == books[market] = EmptyBook /\ stamps[market] = 0

\* C16: the dispatch of an 'update' message for a market that has no level and
\* no timestamp leaves the market without level and without timestamp.
C16_UpdateCreatesNoBook ==
    [][\A market \in Markets, bids \in PulseBids, time \in 1..MaxStamp, drifted \in BOOLEAN :
            (/\ NoBookState(orderbooks, orderbook_timestamps, market)
             /\ _on_message(OrderbookMessage(market, "update", bids, << >>, time, drifted),
                            << "bids", "asks" >>))
            => NoBookState(orderbooks', orderbook_timestamps', market)]_vars

(***************************************************************************)
(* Properties of the markets, under SpecMarkets.                           *)
(***************************************************************************)
\* The entries of the registry for one market.
EntriesOf(list, market) == SelectSeq(list, LAMBDA x : x.market = market)

OtherMarketsUnchanged(market) ==
    \A m \in Markets \ {market} :
        /\ orderbooks'[m] = orderbooks[m]
        /\ orderbook_timestamps'[m] = orderbook_timestamps[m]
        /\ trades'[m] = trades[m]
        /\ tickers'[m] = tickers[m]
        /\ EntriesOf(subscriptions', m) = EntriesOf(subscriptions, m)

\* The dispatch of an orderbook, trades or ticker message for market.
DispatchFor(market) ==
    \/ \E action \in {"partial", "update"}, bids \in PulseBids, time \in 1..MaxStamp,
          drifted \in BOOLEAN :
            _on_message(OrderbookMessage(market, action, bids, << >>, time, drifted),
                        << "bids", "asks" >>)
    \/ \E data \in Payloads : _on_message(TradesMessage(market, data), << "bids", "asks" >>)
    \/ \E data \in Payloads : _on_message(TickerMessage(market, data), << "bids", "asks" >>)

\* The handler of an orderbook message for market goes on after a suspension.
HandlerGoesOn(market) ==
    /\ handling.market = market
    /\ pc[Dispatch] \notin {"idle", "reconnect"}
    /\ pc'[Dispatch] # pc[Dispatch]

\* C18: every step of the dispatch of an orderbook, trades or ticker message
\* for a market M, the steps of the checksum-mismatch branch included, leaves
\* the levels, timestamp, trades, ticker and registry entries of every other
\* market as they were.
C18_OtherMarketsUntouched ==
    [][\A market \in Markets :
            OtherMarketsUnchanged(market) \/ ~(DispatchFor(market) \/ HandlerGoesOn(market))]_vars

\* The checksum of a message for A differed and its book was dropped, while B
\* holds a book and a timestamp.
C18_Witness ==
    /\ pc[Dispatch] = "unsub_send"
    /\ handling.market = "A"
    /\ orderbooks["B"].bids # << >>
    /\ orderbook_timestamps["B"] # 0

(***************************************************************************)
(* Properties of the registry against the connection, under Spec.          *)
(***************************************************************************)
\* The entry is the one _unsubscribe is about to remove, its frame being sent.
BeingRemoved(subscription) ==
    pc[Dispatch] = "unsub_done" /\ subscription = OrderbookSub(handling.market)

\* C19: for every entry of the registry, a subscribe frame was sent on the
\* current connection and no unsubscribe frame for it after that, the entry
\* that _unsubscribe is removing apart.
C19_RegistryMatchesConnection ==
    \A i \in 1..Len(subscriptions) :
        BeingRemoved(subscriptions[i]) \/ SubscribeFrames(sent, subscriptions[i]) >= 1

\* A step of the dispatch flow outside the branch of a checksum mismatch.
DispatchActsUnmismatched ==
    /\ pc'[Dispatch] # pc[Dispatch]
    /\ pc[Dispatch] \notin {"unsub_send", "unsub_done", "resub_send", "resub_done", "reconnect"}

\* C20: a step of the dispatch flow sends a frame or changes the registry only
\* in the branch of a checksum mismatch: the handling of a message whose
\* checksum matches sends nothing and leaves the registry as it was.
C20_VerifiedDispatchSendsNothing ==
    [][DispatchActsUnmismatched => sent' = sent /\ subscriptions' = subscriptions]_vars

(***************************************************************************)
(* Properties of a read concurrent with the dispatch, under SpecRead.      *)
(***************************************************************************)
\* The handler of an orderbook message for market has applied the levels of
\* the message and has not compared the checksum yet: the dispatch flow is at
\* a suspension point of the get_orderbook it calls.
LevelsUnverified(market) ==
    /\ handling.market = market
    /\ pc[Dispatch] \in {"send", "append", "wsend", "wappend", "wait", "woken"}

\* The dispatch flow is at such a point only for a market whose subscription
\* is not in the registry, and such a market holds no book: every message
\* handled leaves the subscription recorded, and _on_open wipes both.
NoBookUnrecorded ==
    \A market \in Markets :
        (pc[Dispatch] = "idle" /\ ~Contains(subscriptions, Sub("orderbook", market)))
            => orderbooks[market] = EmptyBook /\ orderbook_timestamps[market] = 0

\* The step returns a get_orderbook(market) of consumer c.
ReturnsOrderbook(c, market) ==
    /\ pc[c] # "idle"
    /\ call[c].fn = "get_orderbook"
    /\ call[c].market = market
    /\ pc'[c] = "idle"
    /\ ret'[c].fn = "get_orderbook"

\* C17: a get_orderbook(M) of a consumer that returns while the handler of an
\* orderbook message for M has applied the levels and not yet compared the
\* checksum returns the book held before the message (no book: the empty
\* lists) or the book the checksum of the message verifies.
C17_ReadSeesBeforeOrVerified ==
    [][\A c \in Consumers, market \in Markets :
          (LevelsUnverified(market) /\ ReturnsOrderbook(c, market))
              => \/ ret'[c].value = ReadOrderbook(EmptyBook)
                 \/ computed_result(ret'[c].value) = handling.checksum]_vars

====
